---- MODULE Spec2Model ----
(***************************************************************************)
(* Virtual Preview Engine of GenWebAI: the Home component (host side:      *)
(* manifest state, blob-URL materializer, iframe message handler) and the  *)
(* script of the sandbox iframe (resolvePath, rewriteLinks, navigateTo,    *)
(* click and message listeners).                                           *)
(*                                                                         *)
(* Paths and references are sequences of '/'-separated segments, the form  *)
(* String.split('/') gives them: "pages/about.html" is                     *)
(* <<"pages", "about.html">>, "/logo.png" is <<"", "logo.png">>.          *)
(*                                                                         *)
(* React runs the cleanup and the body of a passive effect after the       *)
(* render that changed its dependency, before the browser dispatches any   *)
(* later task (a message, a click, a resolved server action); a state      *)
(* change and the effects it triggers are therefore one step here.         *)
(*                                                                         *)
(* Spec is the page with its preview; SpecHistory adds the browser's back  *)
(* gesture.  SpecResolve, SpecUnescape, SpecMaterialize and SpecFlow       *)
(* evaluate resolvePath / rewriteLinks, unescapeModelContent, the blob-URL *)
(* effect and generateWebsitePreviewFlow on their own, for every input of  *)
(* a bounded set.                                                          *)
(***************************************************************************)
EXTENDS Naturals, Sequences, FiniteSets

\* ------------------------------------------------------------------ bounds
\* number of manifest loads (runs of the blob-URL effect with a manifest)
MaxGen == 2
\* number of iframe elements mounted over a session
MaxWin == 2
\* number of navigations of one sandbox whose fetch is still awaited
MaxPending == 2
\* number of back events dispatched to the sandbox
MaxBack == 1
\* directories above the current page, segments of a reference
MaxDepth == 2
MaxRefLen == 3
\* characters of a file content given to unescapeModelContent
MaxStrLen == 3
\* files of a manifest given to the blob-URL effect on its own
MaxFiles == 2

\* ------------------------------------------------------------- input data
IndexPath == <<"index.html">>
AboutPath == <<"about.html">>
HomePath == <<"home.html">>

\* references found in href attributes of generated pages
RefAbout == <<".", "about.html">>
RefIndex == <<".", "index.html">>
RefGone == <<".", "gone.html">>

\* file contents: a text and the references of its anchors, in source order
PageHome == [text |-> "home", hrefs |-> <<RefAbout, RefGone>>]
PageAbout == [text |-> "about", hrefs |-> <<RefIndex>>]
PagePlain == [text |-> "plain", hrefs |-> <<>>]
\* a page with an element of class loader-container and one of class timeout
PageSpinner == [text |-> "spinner", hrefs |-> <<>>]
PageNew == [text |-> "regenerated", hrefs |-> <<RefAbout>>]

\* a content that is a data: URI, "data:<mime>;base64,<payload>"; the payload
\* is a sequence of characters
DataUri(mime, payload) == [uri |-> "data", mime |-> mime, payload |-> payload]

LogoPath == <<"assets", "logo.png">>
FontPath == <<"assets", "font.woff">>
StylePath == <<"assets", "styles.css">>
ScriptPath == <<"assets", "app.js">>

\* "QQ==" is the byte 65, "QUFB" the bytes 65 65 65; '!' is no base64 character
LogoPng == DataUri("image/png", <<"Q", "Q", "=", "=">>)
FontWoff == DataUri("font/woff", <<"Q", "U", "F", "B">>)
CorruptPng == DataUri("image/png", <<"Q", "!", "=", "=">>)
StyleText == [text |-> "body{}", hrefs |-> <<>>]

File(p, c) == [path |-> p, content |-> c]

\* manifests the generation collaborator may return (generateWebsitePreviewFlow
\* guarantees at least one file and a non-empty entry, nothing more); the
\* last one has a logo whose base64 data is malformed
GenResults ==
  { [projectName |-> "shop", entry |-> IndexPath,
     files |-> <<File(IndexPath, PageHome), File(AboutPath, PageAbout)>>],
    [projectName |-> "shop", entry |-> IndexPath,
     files |-> <<File(IndexPath, PagePlain), File(IndexPath, PageHome)>>],
    [projectName |-> "generated-project", entry |-> HomePath,
     files |-> <<File(IndexPath, PagePlain)>>],
    [projectName |-> "shop", entry |-> IndexPath,
     files |-> <<File(IndexPath, PagePlain), File(LogoPath, CorruptPng),
                 File(AboutPath, PageAbout)>>] }

\* projects of the user's history; the id is the identity of the stored
\* preview object
HistoryProjects ==
  { [id |-> 101, projectName |-> "blog", entry |-> IndexPath,
     files |-> <<File(IndexPath, PageHome), File(AboutPath, PageAbout)>>],
    [id |-> 102, projectName |-> "cafe", entry |-> AboutPath,
     files |-> <<File(AboutPath, PageSpinner)>>] }

\* contents the regeneration collaborator may return
RegenContents == {PageNew}

NoPreview == [id |-> 0, projectName |-> "", entry |-> <<>>, files |-> <<>>]
NoUrl == 0
NoWin == 0

\* ------------------------------------------------- handle map (JS object)
\* An object with string keys: entries kept in insertion order, the order
\* Object.keys and Object.values enumerate them in.
Keys(m) == {m[i].path : i \in DOMAIN m}

InManifest(m, p) == \E i \in DOMAIN m : m[i].path = p

Lookup(m, p) ==
  IF InManifest(m, p) THEN (CHOOSE e \in {m[i] : i \in DOMAIN m} : e.path = p).url ELSE NoUrl

Put(m, p, u) ==
  IF InManifest(m, p)
  THEN [i \in DOMAIN m |-> IF m[i].path = p THEN [path |-> p, url |-> u] ELSE m[i]]
  ELSE Append(m, [path |-> p, url |-> u])

\* Object.keys(m).find(key => m[key] === href): the first key, <<>> if none
KeyOfUrl(m, u) ==
  IF \E i \in DOMAIN m : m[i].url = u
  THEN m[CHOOSE i \in DOMAIN m : m[i].url = u /\ \A j \in 1..(i - 1) : m[j].url # u].path
  ELSE <<>>

\* ------------------------------------------------------ blob URL registry
\* lg is the sequence of createObjectURL / revokeObjectURL calls made so far
RevokeCount(lg, u) == Cardinality({i \in DOMAIN lg : lg[i].op = "revoke" /\ lg[i].url = u})

Live(lg, u) == u # NoUrl /\ RevokeCount(lg, u) = 0

RevokeAll(m) == [i \in DOMAIN m |-> [op |-> "revoke", url |-> m[i].url]]

\* ------------------------------------------------------ blobs of the files
\* file names by the test of the effect that accepts them
HtmlNames == {"index.html", "about.html", "home.html"}
CssNames == {"styles.css"}
JsNames == {"app.js"}
\* /\.(png|jpe?g|gif|ico|svg)$/i
ImageNames == {"logo.png"}

FileName(path) == path[Len(path)]

\* the MIME type the effect infers from the end of the path
MimeOfPath(path) ==
  IF FileName(path) \in HtmlNames THEN "text/html"
  ELSE IF FileName(path) \in CssNames THEN "text/css"
  ELSE IF FileName(path) \in JsNames THEN "application/javascript"
  ELSE "text/plain"

\* file.content.includes(';base64,')
HasBase64Marker(content) == "payload" \in DOMAIN content

\* atob: the value of a base64 character
Base64Value(c) ==
  CASE c = "A" -> 0 [] c = "B" -> 1 [] c = "F" -> 5 [] c = "Q" -> 16 [] c = "U" -> 20
    [] c = "/" -> 63
Base64Alphabet == {"A", "B", "F", "Q", "U", "/"}

\* atob removes one or two '=' from the end of data whose length is a
\* multiple of four
StripPadding(d) ==
  IF Len(d) > 0 /\ Len(d) % 4 = 0 /\ d[Len(d)] = "="
  THEN IF d[Len(d) - 1] = "=" THEN SubSeq(d, 1, Len(d) - 2) ELSE SubSeq(d, 1, Len(d) - 1)
  ELSE d

\* atob throws InvalidCharacterError
AtobThrows(d) ==
  LET s == StripPadding(d)
  IN Len(s) % 4 = 1 \/ \E i \in DOMAIN s : s[i] \notin Base64Alphabet

\* the bytes of stripped base64 data: three per four characters, one for
\* two left over, two for three left over
RECURSIVE Base64Bytes(_)
Base64Bytes(s) ==
  IF Len(s) >= 4
  THEN LET n == Base64Value(s[1]) * 262144 + Base64Value(s[2]) * 4096
                + Base64Value(s[3]) * 64 + Base64Value(s[4])
       IN <<n \div 65536, (n \div 256) % 256, n % 256>> \o Base64Bytes(SubSeq(s, 5, Len(s)))
  ELSE IF Len(s) = 3
  THEN LET n == Base64Value(s[1]) * 4096 + Base64Value(s[2]) * 64 + Base64Value(s[3])
       IN <<n \div 1024, (n \div 4) % 256>>
  ELSE IF Len(s) = 2
  THEN <<(Base64Value(s[1]) * 64 + Base64Value(s[2])) \div 16>>
  ELSE <<>>

atob(d) == Base64Bytes(StripPadding(d))

\* isBinary && file.content.includes(';base64,')
IsBinary(file) == FileName(file.path) \in ImageNames /\ HasBase64Marker(file.content)

\* new Blob(...): its type, whether it holds decoded bytes, and the bytes
BlobOf(file) ==
  IF IsBinary(file)
  THEN [type |-> file.content.mime, binary |-> TRUE, bytes |-> atob(file.content.payload)]
  ELSE [type |-> MimeOfPath(file.path), binary |-> FALSE, bytes |-> <<>>]

\* websitePreview.files.forEach(file => blobUrls.current[file.path] = URL.createObjectURL(blob));
\* atob throws out of the forEach and out of the effect
RECURSIVE Materialize(_, _, _)
Materialize(files, g, st) ==
  IF files = <<>> THEN st
  ELSE LET f == Head(files)
           u == Len(st.info) + 1
       IN IF IsBinary(f) /\ AtobThrows(f.content.payload)
          THEN [st EXCEPT !.threw = TRUE]
          ELSE Materialize(Tail(files), g,
                 [st EXCEPT
                    !.info = Append(@, [gen |-> g, path |-> f.path, content |-> f.content,
                                        blob |-> BlobOf(f)]),
                    !.map = Put(@, f.path, u),
                    !.log = Append(@, [op |-> "create", url |-> u])])

\* variant that drops the old map without revoking its URLs
BlobUrlsEffectNoRelease(preview, g, st) ==
  IF preview.id # 0
  THEN Materialize(preview.files, g, [st EXCEPT !.map = <<>>])
  ELSE [st EXCEPT !.map = <<>>]

\* variant that materializes the new set before it releases the old one
BlobUrlsEffectCreateFirst(preview, g, st) ==
  LET created == IF preview.id # 0
                 THEN Materialize(preview.files, g, [st EXCEPT !.map = <<>>])
                 ELSE [st EXCEPT !.map = <<>>]
  IN [created EXCEPT !.log = @ \o RevokeAll(st.map) \o RevokeAll(st.map)]

\* The effect on [websitePreview]: React first runs the cleanup the previous
\* run returned (it revokes the values of the object that run left in
\* blobUrls.current), then the body: revoke the values of blobUrls.current,
\* reset it, create one URL per file.
BlobUrlsEffect(preview, g, st) ==
  LET afterCleanup == [st EXCEPT !.log = @ \o RevokeAll(st.map)]
      afterRevoke == [afterCleanup EXCEPT !.log = @ \o RevokeAll(st.map), !.map = <<>>]
  IN IF preview.id # 0 THEN Materialize(preview.files, g, afterRevoke) ELSE afterRevoke

\* ----------------------------------------------------------- resolvePath
DotSegments == {".", ".."}
\* names whose first character is '.'
DotNames == {".well-known"}

\* relativePath.startsWith('.')
StartsWithDot(ref) == Len(ref) > 0 /\ ref[1] \in DotSegments \cup DotNames

Pop(s) == IF s = <<>> THEN <<>> ELSE SubSeq(s, 1, Len(s) - 1)

\* Array.join('/') followed by reading the result as a path again
Join(parts) == IF parts = <<>> THEN <<"">> ELSE parts

RECURSIVE ApplyParts(_, _)
ApplyParts(pathParts, relativeParts) ==
  IF relativeParts = <<>> THEN pathParts
  ELSE LET part == Head(relativeParts)
           next == IF part = ".." THEN Pop(pathParts)
                   ELSE IF part # "." THEN Append(pathParts, part)
                   ELSE pathParts
       IN ApplyParts(next, Tail(relativeParts))

\* variant that does not drop the file name of the current path
resolvePathFromFile(currentPath, relativePath) ==
  IF ~StartsWithDot(relativePath) THEN relativePath
  ELSE Join(ApplyParts(currentPath, relativePath))

resolvePath(currentPath, relativePath) ==
  IF ~StartsWithDot(relativePath) THEN relativePath
  ELSE Join(ApplyParts(Pop(currentPath), relativePath))

\* ---------------------------------------------------------- rewriteLinks
\* first segments that start with 'http': schemes, and a file name
HttpSegments == {"http:", "https:", "http-status.html"}
HashSegments == {"#top"}
BlobSegments == {"blob:http:"}

\* originalPath is empty, or starts with 'http', '#' or 'blob:'
Skipped(ref) ==
  ref = <<"">> \/ ref = <<>> \/ ref[1] \in HttpSegments \cup HashSegments \cup BlobSegments

\* variant that resolves every reference
rewriteLinkUnskipped(fm, basePath, ref) ==
  IF InManifest(fm, resolvePath(basePath, ref))
  THEN [kind |-> "blob", url |-> Lookup(fm, resolvePath(basePath, ref)), ref |-> ref]
  ELSE [kind |-> "orig", url |-> NoUrl, ref |-> ref]

rewriteLink(fm, basePath, ref) ==
  IF ~Skipped(ref) /\ InManifest(fm, resolvePath(basePath, ref))
  THEN [kind |-> "blob", url |-> Lookup(fm, resolvePath(basePath, ref)), ref |-> ref]
  ELSE [kind |-> "orig", url |-> NoUrl, ref |-> ref]

rewriteLinks(fm, basePath, hrefs) == [i \in DOMAIN hrefs |-> rewriteLink(fm, basePath, hrefs[i])]

\* ------------------------------------------------------------------ state
VARIABLES
  mounted,        \* the Home component is mounted
  websitePreview, \* useState websitePreview (NoPreview for null)
  gen,            \* number of manifests loaded so far (ghost)
  blobUrls,       \* blobUrls.current
  urlInfo,        \* the blob URL store: generation, path and content of every URL created
  log,            \* createObjectURL / revokeObjectURL calls in order (ghost)
  genPhase,       \* handleGenerate: "idle", "preview" (awaiting the preview), "project"
  regen,          \* handleRegenerate: "idle" or awaiting, with the manifest of its closure
  stale,          \* which pending requests have been superseded by a later load (ghost)
  staleApplied,   \* a superseded request's result was applied (ghost)
  iframe,         \* window of the mounted preview iframe, NoWin if none
  nextWin,        \* next window identity
  hostInbox,      \* message events queued for the host window
  toasts,         \* paths of the navigation errors shown to the user
  readyFrom,      \* sources of the iframe-ready messages the host received (ghost)
  sent,           \* targets of the file-manifest messages the host posted (ghost)
  sbState,        \* sandbox document: "none", "loading", "ready", "away"
  sbInbox,        \* message events queued for the sandbox window
  fileManifest,   \* the sandbox script's fileManifest
  body,           \* what the sandbox document shows
  pending,        \* navigateTo calls awaiting their fetch, in call order
  navHistory,     \* paths the router pushed onto the sandbox's history
  timer,          \* the timeout of the srcDoc head: "none", "armed" or "fired"
  lastNav,        \* the navigation the sandbox was asked for last (ghost)
  refreshed,      \* the iframe was recreated by Refresh Preview for the manifest that
                  \* is current and its sandbox has not rendered yet (ghost)
  backs,          \* back events dispatched to the sandbox window so far (ghost)
  call,           \* a function under evaluation on its own: its name and arguments
  ret             \* the value that evaluation returned, NoRet before it ran

hostVars == <<mounted, websitePreview, gen, blobUrls, urlInfo, log, genPhase, regen, stale,
              staleApplied, iframe, nextWin, hostInbox, toasts, readyFrom, sent, refreshed>>
loadVars == <<websitePreview, gen, blobUrls, urlInfo, log>>
requestVars == <<genPhase, regen, stale, staleApplied>>
sandboxVars == <<sbState, sbInbox, fileManifest, body, pending, navHistory, timer, lastNav>>
auxVars == <<backs, call, ret>>
vars == <<hostVars, sandboxVars, auxVars>>

NoCall == [fn |-> "none"]
NoRet == [done |-> FALSE]

NoNav == [path |-> <<>>, found |-> FALSE, ok |-> FALSE]

NoRegen == [state |-> "idle", base |-> NoPreview]

LoaderBody == [kind |-> "loader", path |-> <<>>, text |-> "", links |-> <<>>]
NotFoundBody == [kind |-> "404", path |-> <<>>, text |-> "", links |-> <<>>]
ErrorBody == [kind |-> "error", path |-> <<>>, text |-> "", links |-> <<>>]
NoBody == [kind |-> "none", path |-> <<>>, text |-> "", links |-> <<>>]
\* the srcDoc body with the loader hidden and the timeout message shown
TimeoutBody == [kind |-> "timeout", path |-> <<>>, text |-> "", links |-> <<>>]

HomeInit ==
  /\ mounted = TRUE
  /\ websitePreview = NoPreview
  /\ gen = 0
  /\ blobUrls = <<>>
  /\ urlInfo = <<>>
  /\ log = <<>>
  /\ genPhase = "idle"
  /\ regen = NoRegen
  /\ stale = {}
  /\ staleApplied = FALSE
  /\ iframe = NoWin
  /\ nextWin = 1
  /\ hostInbox = <<>>
  /\ toasts = <<>>
  /\ readyFrom = <<>>
  /\ sent = <<>>
  /\ sbState = "none"
  /\ sbInbox = <<>>
  /\ fileManifest = <<>>
  /\ body = NoBody
  /\ pending = <<>>
  /\ navHistory = <<>>
  /\ timer = "none"
  /\ lastNav = NoNav
  /\ refreshed = FALSE

Init ==
  /\ HomeInit
  /\ backs = 0
  /\ call = NoCall
  /\ ret = NoRet

\* ------------------------------------------------------- render and effects
\* requests still awaited
PendingRequests ==
  (IF genPhase = "preview" THEN {"generate"} ELSE {}) \cup
  (IF regen.state = "pending" THEN {"regenerate"} ELSE {})

\* A fresh iframe element: its document is loading, nothing of the previous
\* document survives.
FreshSandbox ==
  /\ sbState' = "loading"
  /\ sbInbox' = <<>>
  /\ fileManifest' = <<>>
  /\ body' = LoaderBody
  /\ pending' = <<>>
  /\ navHistory' = <<>>
  /\ timer' = "armed"
  /\ lastNav' = NoNav

NoSandbox ==
  /\ sbState' = "none"
  /\ sbInbox' = <<>>
  /\ fileManifest' = <<>>
  /\ body' = NoBody
  /\ pending' = <<>>
  /\ navHistory' = <<>>
  /\ timer' = "none"
  /\ lastNav' = NoNav

\* setWebsitePreview(p) (and setPreviewKey when newKey), the render that
\* follows and the effects of that render.  The iframe is part of the tree
\* only while websitePreview is set; it is a new element when it enters the
\* tree and when its key changes.  An effect that throws has no error
\* boundary above it: React removes the tree, Home with it; the run that
\* threw returned no cleanup, so the URLs it created stay as they are.
Commit(p, newKey) ==
  LET changed == p.id # websitePreview.id
      st == [info |-> urlInfo, map |-> blobUrls, log |-> log, threw |-> FALSE]
      run == IF changed THEN BlobUrlsEffect(p, gen + 1, st) ELSE st
  IN /\ websitePreview' = p
     /\ gen' = IF changed /\ p.id # 0 THEN gen + 1 ELSE gen
     /\ urlInfo' = run.info
     /\ blobUrls' = run.map
     /\ log' = run.log
     /\ mounted' = ~run.threw
     /\ refreshed' = (newKey /\ ~changed /\ p.id # 0)
     /\ IF p.id = 0 \/ run.threw
        THEN iframe' = NoWin /\ nextWin' = nextWin /\ NoSandbox
        ELSE IF iframe = NoWin \/ newKey
        THEN iframe' = nextWin /\ nextWin' = nextWin + 1 /\ FreshSandbox
        ELSE UNCHANGED <<iframe, nextWin, sandboxVars>>

CanLoad == gen < MaxGen
CanMount == nextWin <= MaxWin

\* ------------------------------------------------------------ host: loads
\* loadFromHistory(project)
LoadFromHistory(project) ==
  /\ mounted
  /\ project.id # websitePreview.id
  /\ CanLoad
  /\ iframe = NoWin => CanMount
  /\ Commit(project, FALSE)
  /\ stale' = stale \cup PendingRequests
  /\ UNCHANGED <<genPhase, regen, staleApplied, hostInbox, toasts, readyFrom, sent>>
  /\ UNCHANGED auxVars

\* startOver: the button of the preview view
StartOver ==
  /\ mounted
  /\ websitePreview # NoPreview
  /\ Commit(NoPreview, FALSE)
  /\ stale' = stale \cup PendingRequests
  /\ UNCHANGED <<genPhase, regen, staleApplied, hostInbox, toasts, readyFrom, sent>>
  /\ UNCHANGED auxVars

\* handleGenerate up to its first await; the button is part of the home view
\* and disabled while loading.generate
HandleGenerate ==
  /\ mounted
  /\ websitePreview = NoPreview
  /\ genPhase = "idle"
  /\ genPhase' = "preview"
  /\ Commit(NoPreview, FALSE)
  /\ stale' = (stale \cup PendingRequests) \ {"generate"}
  /\ UNCHANGED <<regen, staleApplied, hostInbox, toasts, readyFrom, sent>>
  /\ UNCHANGED auxVars

\* generateWebsitePreviewAction returned an error or no preview
GenerateFailed ==
  /\ mounted
  /\ genPhase = "preview"
  /\ genPhase' = "idle"
  /\ stale' = stale \ {"generate"}
  /\ UNCHANGED <<mounted, websitePreview, gen, blobUrls, urlInfo, log, regen, staleApplied,
                 iframe, nextWin, hostInbox, toasts, readyFrom, sent, sandboxVars>>
  /\ UNCHANGED <<refreshed, auxVars>>

\* generateWebsitePreviewAction returned a preview: setWebsitePreview(preview)
GenerateResolved(result) ==
  /\ mounted
  /\ genPhase = "preview"
  /\ CanLoad
  /\ iframe = NoWin => CanMount
  /\ genPhase' = "project"
  /\ Commit([id |-> gen + 1, projectName |-> result.projectName, entry |-> result.entry,
             files |-> result.files], FALSE)
  /\ staleApplied' = (staleApplied \/ "generate" \in stale)
  /\ stale' = (stale \cup PendingRequests) \ {"generate"}
  /\ UNCHANGED <<regen, hostInbox, toasts, readyFrom, sent>>
  /\ UNCHANGED auxVars

\* generateFullProjectAction returned: the preview is not touched
ProjectResolved ==
  /\ mounted
  /\ genPhase = "project"
  /\ genPhase' = "idle"
  /\ UNCHANGED <<mounted, websitePreview, gen, blobUrls, urlInfo, log, regen, stale, staleApplied,
                 iframe, nextWin, hostInbox, toasts, readyFrom, sent, sandboxVars>>
  /\ UNCHANGED <<refreshed, auxVars>>

\* the entry file of a manifest is present: files.find(f => f.path === entry)
HasEntryFile(p) == \E i \in DOMAIN p.files : p.files[i].path = p.entry

\* files.map(file => file.path === entry ? {...file, content} : file)
SpliceEntry(p, content) ==
  [i \in DOMAIN p.files |->
     IF p.files[i].path = p.entry THEN File(p.files[i].path, content) ELSE p.files[i]]

\* handleRegenerate up to its await; the button is part of the preview view
\* and disabled while loading.regenerate
HandleRegenerate ==
  /\ mounted
  /\ websitePreview # NoPreview
  /\ regen.state = "idle"
  /\ HasEntryFile(websitePreview)
  /\ regen' = [state |-> "pending", base |-> websitePreview]
  /\ stale' = stale \ {"regenerate"}
  /\ UNCHANGED <<mounted, websitePreview, gen, blobUrls, urlInfo, log, genPhase, staleApplied,
                 iframe, nextWin, hostInbox, toasts, readyFrom, sent, sandboxVars>>
  /\ UNCHANGED <<refreshed, auxVars>>

\* regenerateSectionAction returned an error or no content
RegenerateFailed ==
  /\ mounted
  /\ regen.state = "pending"
  /\ regen' = NoRegen
  /\ stale' = stale \ {"regenerate"}
  /\ UNCHANGED <<mounted, websitePreview, gen, blobUrls, urlInfo, log, genPhase, staleApplied,
                 iframe, nextWin, hostInbox, toasts, readyFrom, sent, sandboxVars>>
  /\ UNCHANGED <<refreshed, auxVars>>

\* regenerateSectionAction returned content: the manifest of the handler's
\* closure with its entry file replaced, and a new previewKey
RegenerateResolved(content) ==
  /\ mounted
  /\ regen.state = "pending"
  /\ CanLoad
  /\ CanMount
  /\ regen' = NoRegen
  /\ Commit([regen.base EXCEPT !.id = gen + 1, !.files = SpliceEntry(regen.base, content)],
            TRUE)
  /\ staleApplied' = (staleApplied \/ "regenerate" \in stale)
  /\ stale' = (stale \cup PendingRequests) \ {"regenerate"}
  /\ UNCHANGED <<genPhase, hostInbox, toasts, readyFrom, sent>>
  /\ UNCHANGED auxVars

\* the Refresh Preview button: setPreviewKey(Date.now())
RefreshPreview ==
  /\ mounted
  /\ websitePreview # NoPreview
  /\ CanMount
  /\ Commit(websitePreview, TRUE)
  /\ UNCHANGED <<genPhase, regen, stale, staleApplied, hostInbox, toasts,
                 readyFrom, sent>>
  /\ UNCHANGED auxVars

\* The Home component leaves the page: the cleanup of the blob-URL effect
\* runs, the message listener is removed, the iframe goes with the tree.
Unmount ==
  /\ mounted
  /\ mounted' = FALSE
  /\ log' = log \o RevokeAll(blobUrls)
  /\ iframe' = NoWin
  /\ NoSandbox
  /\ UNCHANGED <<websitePreview, gen, blobUrls, urlInfo, genPhase, regen, stale, staleApplied,
                 nextWin, hostInbox, toasts, readyFrom, sent>>
  /\ refreshed' = FALSE
  /\ UNCHANGED auxVars

\* ------------------------------------------------- host: handleIframeMessage
ReadyMsg(w) == [type |-> "iframe-ready", src |-> w, path |-> <<>>]
NavErrorMsg(w, p) == [type |-> "navigation-error", src |-> w, path |-> p]
ManifestMsg(m, e) == [type |-> "file-manifest", manifest |-> m, entry |-> e]

\* variant without any test
FromAnyone(msg) == TRUE

\* variant without the comparison of event.source
FromAnyWindow(msg) == iframe # NoWin

\* !(!iframe || event.source !== iframe.contentWindow)
FromMountedIframe(msg) == iframe # NoWin /\ msg.src = iframe

\* variant that answers a ready twice
ReplyTwice(box, m, e) == box \o <<ManifestMsg(m, e), ManifestMsg(m, e)>>

\* iframe.contentWindow.postMessage({type: 'file-manifest', manifest, entry})
Reply(box, m, e) == Append(box, ManifestMsg(m, e))

\* variant that drops the report
ReportNothing(ts, path) == ts

\* toast({..., description: `Could not find the page: ${event.data.path}`})
Report(ts, path) == Append(ts, path)

HandleIframeMessage ==
  /\ mounted
  /\ hostInbox # <<>>
  /\ LET msg == Head(hostInbox)
     IN /\ hostInbox' = Tail(hostInbox)
        /\ readyFrom' = IF msg.type = "iframe-ready" THEN Append(readyFrom, msg.src)
                        ELSE readyFrom
        /\ IF ~FromMountedIframe(msg)
           THEN UNCHANGED <<sbInbox, sent, toasts>>
           ELSE IF msg.type = "iframe-ready"
           THEN /\ sbInbox' = Reply(sbInbox, blobUrls, websitePreview.entry)
                /\ sent' = Append(sent, iframe)
                /\ toasts' = toasts
           ELSE /\ toasts' = Report(toasts, msg.path)
                /\ UNCHANGED <<sbInbox, sent>>
  /\ UNCHANGED <<mounted, websitePreview, gen, blobUrls, urlInfo, log, genPhase, regen, stale,
                 staleApplied, iframe, nextWin, sbState, fileManifest, body, pending,
                 navHistory, timer, lastNav>>
  /\ UNCHANGED <<refreshed, auxVars>>

\* ---------------------------------------------------------------- sandbox
\* The script at the end of the srcDoc body ran: listeners are registered
\* and 'iframe-ready' is posted to the parent.
SandboxInit ==
  /\ sbState = "loading"
  /\ sbState' = "ready"
  /\ hostInbox' = Append(hostInbox, ReadyMsg(iframe))
  /\ UNCHANGED <<mounted, loadVars, requestVars, iframe, nextWin, toasts, readyFrom, sent,
                 sbInbox, fileManifest, body, pending, navHistory, timer, lastNav>>
  /\ UNCHANGED <<refreshed, auxVars>>

PageBody(fm, path, content) ==
  [kind |-> "page", path |-> path, text |-> content.text,
   links |-> rewriteLinks(fm, path, content.hrefs)]

\* variant of the lookup that finds every path
AlwaysFound(fm, path) == TRUE

\* fileManifest[path] is truthy
Found(fm, path) == InManifest(fm, path)

\* navigateTo(path) up to its first await.  A miss reports to the host and
\* shows the local placeholder; a hit calls fetch, which resolves the blob
\* URL at the call: a revoked URL makes the fetch reject.
NavigateTo(fm, path) ==
  IF ~Found(fm, path)
  THEN /\ hostInbox' = Append(hostInbox, NavErrorMsg(iframe, path))
       /\ body' = NotFoundBody
       /\ pending' = pending
       /\ lastNav' = [path |-> path, found |-> FALSE, ok |-> FALSE]
  ELSE /\ pending' = Append(pending, [path |-> path, url |-> Lookup(fm, path),
                                      ok |-> Live(log, Lookup(fm, path))])
       /\ lastNav' = [path |-> path, found |-> TRUE, ok |-> Live(log, Lookup(fm, path))]
       /\ UNCHANGED <<hostInbox, body>>

\* event.data.entry || 'index.html'
EntryPoint(entry) == IF entry = <<>> \/ entry = <<"">> THEN IndexPath ELSE entry

\* the sandbox's message listener, for a 'file-manifest' message
ReceiveManifest ==
  /\ sbState = "ready"
  /\ sbInbox # <<>>
  /\ Len(pending) < MaxPending
  /\ sbInbox' = Tail(sbInbox)
  /\ fileManifest' = Head(sbInbox).manifest
  /\ NavigateTo(Head(sbInbox).manifest, EntryPoint(Head(sbInbox).entry))
  /\ UNCHANGED <<mounted, loadVars, requestVars, iframe, nextWin, toasts, readyFrom, sent,
                 sbState, navHistory, timer>>
  /\ refreshed' = (refreshed /\ body' = body)
  /\ UNCHANGED auxVars

\* navigateTo after its awaits: the fetch of the i-th pending navigation
\* settled.  The document is parsed, its links rewritten with the
\* fileManifest of that moment, head and body replaced; a rejected fetch
\* shows the error placeholder.
FetchSettled(i) ==
  /\ sbState = "ready"
  /\ i \in DOMAIN pending
  /\ pending' = SubSeq(pending, 1, i - 1) \o SubSeq(pending, i + 1, Len(pending))
  /\ body' = IF pending[i].ok
             THEN PageBody(fileManifest, pending[i].path, urlInfo[pending[i].url].content)
             ELSE ErrorBody
  /\ UNCHANGED <<mounted, loadVars, requestVars, iframe, nextWin, hostInbox, toasts, readyFrom,
                 sent, sbState, sbInbox, fileManifest, navHistory, timer, lastNav>>
  /\ refreshed' = FALSE
  /\ UNCHANGED auxVars

\* The sandbox's click listener, for the i-th anchor of the page shown.  An
\* anchor whose href is a blob: URL is intercepted: preventDefault, then
\* navigateTo the key of that URL, if there is one.
ClickInternal(i) ==
  /\ sbState = "ready"
  /\ body.kind = "page"
  /\ i \in DOMAIN body.links
  /\ body.links[i].kind = "blob"
  /\ Len(pending) < MaxPending
  /\ IF KeyOfUrl(fileManifest, body.links[i].url) # <<>>
     THEN NavigateTo(fileManifest, KeyOfUrl(fileManifest, body.links[i].url))
     ELSE UNCHANGED <<hostInbox, body, pending, lastNav>>
  /\ UNCHANGED <<mounted, loadVars, requestVars, iframe, nextWin, toasts, readyFrom, sent,
                 sbState, sbInbox, fileManifest, navHistory, timer>>
  /\ UNCHANGED <<refreshed, auxVars>>

\* A click on an anchor that rewriteLinks left alone: its href is not a
\* blob: URL, the listener does nothing and the iframe follows the link, away
\* from the srcDoc document.
ClickExternal(i) ==
  /\ sbState = "ready"
  /\ body.kind = "page"
  /\ i \in DOMAIN body.links
  /\ body.links[i].kind = "orig"
  /\ body.links[i].ref[1] \notin HashSegments
  /\ sbState' = "away"
  /\ sbInbox' = <<>>
  /\ fileManifest' = <<>>
  /\ body' = NoBody
  /\ pending' = <<>>
  /\ timer' = "none"
  /\ lastNav' = NoNav
  /\ UNCHANGED <<mounted, loadVars, requestVars, iframe, nextWin, hostInbox, toasts, readyFrom,
                 sent, navHistory>>
  /\ UNCHANGED <<refreshed, auxVars>>

\* ------------------------------------------------------------ specification
Next ==
  \/ \E project \in HistoryProjects : LoadFromHistory(project)
  \/ StartOver
  \/ HandleGenerate
  \/ GenerateFailed
  \/ \E result \in GenResults : GenerateResolved(result)
  \/ ProjectResolved
  \/ HandleRegenerate
  \/ RegenerateFailed
  \/ \E content \in RegenContents : RegenerateResolved(content)
  \/ RefreshPreview
  \/ Unmount
  \/ HandleIframeMessage
  \/ SandboxInit
  \/ ReceiveManifest
  \/ \E i \in 1..MaxPending : FetchSettled(i)
  \/ \E i \in 1..2 : ClickInternal(i)
  \/ \E i \in 1..2 : ClickExternal(i)

Spec == Init /\ [][Next]_vars

\* ------------------------------------------------ the browser's back gesture
\* A back event (popstate) reaches the sandbox window.  The script registers
\* listeners for 'click' and 'message' only and navigateTo adds no history
\* entry, so the event changes nothing of the document or of the host.
PopState ==
  /\ sbState = "ready"
  /\ backs < MaxBack
  /\ backs' = backs + 1
  /\ UNCHANGED <<hostVars, sandboxVars, call, ret>>

NextHistory ==
  \/ Next
  \/ PopState

SpecHistory == Init /\ [][NextHistory]_vars

\* --------------------------------------------------- the handshake timeout
\* texts of pages that have an element of class loader-container and an
\* element of class timeout
LoaderClassTexts == {PageSpinner.text}

\* document.querySelector('.loader-container') and
\* document.querySelector('.timeout') both find an element
HasLoaderElements(b) ==
  b.kind = "loader" \/ (b.kind = "page" /\ b.text \in LoaderClassTexts)

\* loader.style.display = 'none'; timeoutMessage.style.display = 'block'
ShowTimeout(b) ==
  IF b.kind = "loader" THEN TimeoutBody ELSE [b EXCEPT !.text = "spinner-timeout"]

\* The callback of the setTimeout of the srcDoc head, 10 seconds after the
\* document began to load: by then its last script has run.
TimeoutFires ==
  /\ sbState = "ready"
  /\ timer = "armed"
  /\ timer' = "fired"
  /\ body' = IF HasLoaderElements(body) THEN ShowTimeout(body) ELSE body
  /\ UNCHANGED <<hostVars, sbState, sbInbox, fileManifest, pending, navHistory, lastNav,
                 auxVars>>

NextTimeout ==
  \/ Next
  \/ TimeoutFires

SpecTimeout == Init /\ [][NextTimeout]_vars

\* ------------------------------------------- resolvePath evaluated on its own
\* sequences over S of length lo..hi
SeqsOf(S, lo, hi) == UNION {[1..n -> S] : n \in lo..hi}

DirNames == {"pages", "a", "b"}
PageNames == {"about.html", "c.html", "index.html"}
\* segments of a reference: '.', '..', names, and the empty segment a
\* leading, trailing or doubled '/' gives
RefSegments == DotSegments \cup DotNames \cup {"", "contact.html", "index.html", "x.html", "logo.png"}

\* paths of pages: up to MaxDepth directories and a file name
CurrentPaths == {d \o <<f>> : d \in SeqsOf(DirNames, 0, MaxDepth), f \in PageNames}
References == SeqsOf(RefSegments, 1, MaxRefLen)
\* references rewriteLinks passes over for their first characters
PrefixedReferences ==
  { <<"https:", "", "x.org", "logo.png">>, <<"http-status.html">>, <<"#top">>,
    <<"blob:http:", "", "x.org", "1">> }

\* the handle map rewriteLinks consults in these evaluations
AssetManifest ==
  << [path |-> <<"logo.png">>, url |-> 1],
     [path |-> <<"pages", "contact.html">>, url |-> 2],
     [path |-> <<"contact.html">>, url |-> 3],
     [path |-> <<"index.html">>, url |-> 4],
     [path |-> <<"http-status.html">>, url |-> 5] >>

ResolveCalls ==
  [fn : {"resolvePath", "rewriteLinks"}, currentPath : CurrentPaths,
   relativePath : References \cup PrefixedReferences]

InitResolve ==
  /\ HomeInit
  /\ backs = 0
  /\ call \in ResolveCalls
  /\ ret = NoRet

\* resolvePath(currentPath, relativePath)
ResolvePathCall ==
  /\ call.fn = "resolvePath"
  /\ ~ret.done
  /\ ret' = [done |-> TRUE, value |-> resolvePath(call.currentPath, call.relativePath)]
  /\ UNCHANGED <<hostVars, sandboxVars, backs, call>>

\* rewriteLinks(doc, basePath) for a document with one anchor
RewriteLinksCall ==
  /\ call.fn = "rewriteLinks"
  /\ ~ret.done
  /\ ret' = [done |-> TRUE,
             value |-> rewriteLinks(AssetManifest, call.currentPath, <<call.relativePath>>)]
  /\ UNCHANGED <<hostVars, sandboxVars, backs, call>>

NextResolve ==
  \/ ResolvePathCall
  \/ RewriteLinksCall

SpecResolve == InitResolve /\ [][NextResolve]_vars

\* ---------------------------------------------------- unescapeModelContent
\* Strings are sequences of characters here.
Backslash == "\\"
Quote == "\""
Newline == "\n"
ContentChars == {Backslash, Quote, Newline, "n", "x"}

\* s.replace(/pat/g, rep) for a pattern that is a fixed string: matches are
\* taken from the left and do not overlap
RECURSIVE ReplaceAll(_, _, _)
ReplaceAll(s, pat, new) ==
  IF Len(s) < Len(pat) THEN s
  ELSE IF SubSeq(s, 1, Len(pat)) = pat
  THEN new \o ReplaceAll(SubSeq(s, Len(pat) + 1, Len(s)), pat, new)
  ELSE <<Head(s)>> \o ReplaceAll(Tail(s), pat, new)

\* s.startsWith('"') && s.endsWith('"') ? s.slice(1, -1) : s
TrimQuotes(s) ==
  IF Len(s) > 0 /\ s[1] = Quote /\ s[Len(s)] = Quote THEN SubSeq(s, 2, Len(s) - 1) ELSE s

unescapeModelContent(raw) ==
  IF raw = <<>> THEN raw
  ELSE LET s1 == ReplaceAll(raw, <<Backslash, Backslash, "n">>, <<Newline>>)
           s2 == ReplaceAll(s1, <<Backslash, "n">>, <<Newline>>)
           s3 == ReplaceAll(s2, <<Backslash, Quote>>, <<Quote>>)
           s4 == ReplaceAll(s3, <<Backslash, Backslash>>, <<Backslash>>)
       IN TrimQuotes(s4)

RawContents == SeqsOf(ContentChars, 0, MaxStrLen)

InitUnescape ==
  /\ HomeInit
  /\ backs = 0
  /\ call \in [fn : {"unescapeModelContent"}, raw : RawContents]
  /\ ret = NoRet

\* generateWebsitePreviewFlow cleans the content of a file the model returned
FlowClean ==
  /\ call.fn = "unescapeModelContent"
  /\ ~ret.done
  /\ ret' = [done |-> TRUE, stage |-> "server", value |-> unescapeModelContent(call.raw)]
  /\ UNCHANGED <<hostVars, sandboxVars, backs, call>>

\* the client cleans the content the server action returned once more
ClientClean ==
  /\ call.fn = "unescapeModelContent"
  /\ ret.done
  /\ ret.stage = "server"
  /\ ret' = [done |-> TRUE, stage |-> "client", value |-> unescapeModelContent(ret.value),
             once |-> ret.value]
  /\ UNCHANGED <<hostVars, sandboxVars, backs, call>>

NextUnescape ==
  \/ FlowClean
  \/ ClientClean

SpecUnescape == InitUnescape /\ [][NextUnescape]_vars

\* ------------------------------------------- generateWebsitePreviewFlow
\* The output of the model prompt: null, or an object whose projectName,
\* entry and files may be missing ("" and <<>> here).  Contents are sequences
\* of characters; the logo's data URI is one piece without backslash or quote.
NoOutput == [present |-> FALSE, projectName |-> "", entry |-> <<>>, files |-> <<>>]
NoLogo == <<>>
LogoDataUri == <<"data:image/png;base64,QQ==">>
NoManifest == [projectName |-> "", entry |-> <<>>, files |-> <<>>]

ModelFiles ==
  {File(p, c) : p \in {IndexPath, LogoPath}, c \in {<<"x">>, <<Backslash, "n">>}}
ModelOutputs ==
  {NoOutput} \cup
  [present : {TRUE}, projectName : {"", "shop"}, entry : {<<>>, HomePath},
   files : SeqsOf(ModelFiles, 0, MaxFiles)]

\* cleanedFiles, then the logo pushed when one was supplied and no file has
\* the path assets/logo.png
CleanedFiles(output) ==
  [i \in DOMAIN output.files |->
     File(output.files[i].path, unescapeModelContent(output.files[i].content))]

\* variant that pushes the logo whenever one was supplied
WithLogoAlways(files, logoDataUri) ==
  IF logoDataUri # NoLogo THEN Append(files, File(LogoPath, logoDataUri)) ELSE files

WithLogo(files, logoDataUri) ==
  IF logoDataUri # NoLogo /\ ~\E i \in DOMAIN files : files[i].path = LogoPath
  THEN Append(files, File(LogoPath, logoDataUri))
  ELSE files

\* the flow: what it throws ("" if nothing) and the manifest it returns
generateWebsitePreviewFlow(output, logoDataUri) ==
  IF ~output.present
  THEN [threw |-> "Model produced no output", result |-> NoManifest]
  ELSE LET files == WithLogo(CleanedFiles(output), logoDataUri)
           result == [projectName |-> IF output.projectName = "" THEN "generated-project"
                                      ELSE output.projectName,
                      entry |-> IF output.entry = <<>> THEN IndexPath ELSE output.entry,
                      files |-> files]
       IN IF Len(files) = 0
          THEN [threw |-> "No files generated by model", result |-> NoManifest]
          ELSE [threw |-> "", result |-> result]

InitFlow ==
  /\ HomeInit
  /\ backs = 0
  /\ call \in [fn : {"generateWebsitePreviewFlow"}, output : ModelOutputs,
               logoDataUri : {NoLogo, LogoDataUri}]
  /\ ret = NoRet

RunFlow ==
  /\ call.fn = "generateWebsitePreviewFlow"
  /\ ~ret.done
  /\ ret' = [done |-> TRUE, value |-> generateWebsitePreviewFlow(call.output, call.logoDataUri)]
  /\ UNCHANGED <<hostVars, sandboxVars, backs, call>>

NextFlow ==
  \/ RunFlow

SpecFlow == InitFlow /\ [][NextFlow]_vars

\* ------------------------------------------ generateWebsitePreviewAction
\* characters of a raw result
MaxRawLen == 4

\* the markdown fences, three backquotes with and without json, each as one
\* character
OpenFence == "fence-json"
CloseFence == "fence"
Space == " "
\* "k" is a key with its colon, "1" a number
JsonChars == {"{", "}", "k", "1", ",", Space, OpenFence, CloseFence}

\* what generateWebsitePreview gives: a string, an object (by the text
\* JSON.stringify gives for it), undefined, or an Error thrown
RawResults ==
  [kind : {"string"}, text : SeqsOf(JsonChars, 0, MaxRawLen), message : {""}] \cup
  [kind : {"object"}, text : {<<"{", "k", "1", "}">>, <<"{", "}">>}, message : {""}] \cup
  [kind : {"undefined"}, text : {<<>>}, message : {""}] \cup
  [kind : {"throws"}, text : {<<>>}, message : {"Model produced no output", ""}]

\* the first index at or after i of a character that is no white space
RECURSIVE SkipSpace(_, _)
SkipSpace(s, i) == IF i <= Len(s) /\ s[i] = Space THEN SkipSpace(s, i + 1) ELSE i

\* the first replace: an opening fence at the start and the white space
\* after it are removed
StripOpenFence(s) ==
  IF s # <<>> /\ s[1] = OpenFence THEN SubSeq(s, SkipSpace(s, 2), Len(s)) ELSE s

RECURSIVE DropSpaceAtEnd(_)
DropSpaceAtEnd(s) ==
  IF s # <<>> /\ s[Len(s)] = Space THEN DropSpaceAtEnd(SubSeq(s, 1, Len(s) - 1)) ELSE s

\* the second replace: a closing fence at the end and the white space
\* before it are removed
StripCloseFence(s) ==
  IF s # <<>> /\ s[Len(s)] = CloseFence THEN DropSpaceAtEnd(SubSeq(s, 1, Len(s) - 1)) ELSE s

\* indexOf and lastIndexOf, counted from 1; 0 when there is none
IndexOf(s, c) ==
  IF \E i \in DOMAIN s : s[i] = c
  THEN CHOOSE i \in DOMAIN s : s[i] = c /\ \A j \in 1..(i - 1) : s[j] # c
  ELSE 0

LastIndexOf(s, c) ==
  IF \E i \in DOMAIN s : s[i] = c
  THEN CHOOSE i \in DOMAIN s : s[i] = c /\ \A j \in (i + 1)..Len(s) : s[j] # c
  ELSE 0

\* String.prototype.substring(a, b), a and b counted from 0: the two are
\* swapped when a > b
Substring(s, a, b) ==
  LET lo == IF a <= b THEN a ELSE b
      hi == IF a <= b THEN b ELSE a
  IN SubSeq(s, lo + 1, hi)

\* JSON.parse for values made of numbers and objects: the index after the
\* value that starts at i, 0 if there is none
RECURSIVE ParseValue(_, _)
RECURSIVE ParseMembers(_, _, _)
ParseValue(s, i) ==
  IF i > Len(s) THEN 0
  ELSE IF s[i] = "1" THEN i + 1
  ELSE IF s[i] = "{" THEN ParseMembers(s, SkipSpace(s, i + 1), TRUE)
  ELSE 0

ParseMembers(s, i, first) ==
  IF i > Len(s) THEN 0
  ELSE IF s[i] = "}" /\ first THEN i + 1
  ELSE IF s[i] = "k"
  THEN LET v == ParseValue(s, SkipSpace(s, i + 1))
           j == SkipSpace(s, v)
       IN IF v = 0 \/ j > Len(s) THEN 0
          ELSE IF s[j] = "," THEN ParseMembers(s, SkipSpace(s, j + 1), FALSE)
          ELSE IF s[j] = "}" THEN j + 1
          ELSE 0
  ELSE 0

\* JSON.parse(s) does not throw: s is one value with white space around it
JSONparses(s) ==
  LET e == ParseValue(s, SkipSpace(s, 1))
  IN e # 0 /\ SkipSpace(s, e) = Len(s) + 1

\* the value JSON.parse(s) gives, by its text without white space
JSONparse(s) == SelectSeq(s, LAMBDA c : c # Space)

NoValue == <<>>
Preview(v) == [preview |-> [present |-> TRUE, value |-> v],
               error |-> [present |-> FALSE, message |-> ""]]
\* {error: e.message || 'An unknown error occurred while generating the preview.'}
Failure(message) ==
  [preview |-> [present |-> FALSE, value |-> NoValue],
   error |-> [present |-> TRUE,
              message |-> IF message = ""
                          THEN "An unknown error occurred while generating the preview."
                          ELSE message]]

\* what the action returns: the four replace calls, the search of the
\* braces, substring, JSON.parse, and the catch around all of it
generateWebsitePreviewAction(rawResult) ==
  IF rawResult.kind = "throws" THEN Failure(rawResult.message)
  ELSE IF rawResult.kind = "undefined" THEN Failure("TypeError")
  ELSE LET s1 == StripOpenFence(rawResult.text)
           s2 == StripCloseFence(s1)
           s3 == ReplaceAll(s2, <<Backslash, "n">>, <<Backslash, "n">>)
           jsonString == ReplaceAll(s3, <<Backslash, Quote>>, <<Backslash, Quote>>)
           startIndex == IndexOf(jsonString, "{")
           endIndex == LastIndexOf(jsonString, "}")
           span == Substring(jsonString, startIndex - 1, endIndex)
       IN IF startIndex = 0 \/ endIndex = 0
          THEN Failure("Could not find a valid JSON object in the AI's response.")
          ELSE IF JSONparses(span) THEN Preview(JSONparse(span))
          ELSE Failure("SyntaxError")

InitAction ==
  /\ HomeInit
  /\ backs = 0
  /\ call \in [fn : {"generateWebsitePreviewAction"}, rawResult : RawResults]
  /\ ret = NoRet

RunAction ==
  /\ call.fn = "generateWebsitePreviewAction"
  /\ ~ret.done
  /\ ret' = [done |-> TRUE, value |-> generateWebsitePreviewAction(call.rawResult)]
  /\ UNCHANGED <<hostVars, sandboxVars, backs, call>>

NextAction ==
  \/ RunAction

SpecAction == InitAction /\ [][NextAction]_vars

\* --------------------------------------- the blob-URL effect on its own
AssetPaths == {IndexPath, LogoPath, FontPath, StylePath, ScriptPath}
AssetContents == {PagePlain, StyleText, LogoPng, FontWoff, CorruptPng}
AssetFiles == {File(p, c) : p \in AssetPaths, c \in AssetContents}

InitMaterialize ==
  /\ HomeInit
  /\ backs = 0
  /\ call \in [fn : {"blobUrlsEffect"}, files : SeqsOf(AssetFiles, 1, MaxFiles)]
  /\ ret = NoRet

\* the first run of the effect with a manifest of the files of the call
RunBlobUrlsEffect ==
  /\ call.fn = "blobUrlsEffect"
  /\ ~ret.done
  /\ ret' = [done |-> TRUE,
             value |-> BlobUrlsEffect([id |-> 1, projectName |-> "shop", entry |-> IndexPath,
                                       files |-> call.files], 1,
                                      [info |-> <<>>, map |-> <<>>, log |-> <<>>,
                                       threw |-> FALSE])]
  /\ UNCHANGED <<hostVars, sandboxVars, backs, call>>

NextMaterialize ==
  \/ RunBlobUrlsEffect

SpecMaterialize == InitMaterialize /\ [][NextMaterialize]_vars

\* ------------------------------------------- re-running the body's scripts
\* script elements in a page body
MaxScripts == 3

RefScript == <<".", "assets", "app.js">>
RefGoneScript == <<".", "gone.js">>

ScriptManifest == <<[path |-> ScriptPath, url |-> 1]>>

\* a script element: its src attribute (none for an inline script) and its
\* text content
InlineScripts == {[src |-> <<>>, text |-> "a"], [src |-> <<>>, text |-> "b"]}
ExternalScripts == {[src |-> RefScript, text |-> ""], [src |-> RefGoneScript, text |-> ""]}

IsInline(s) == s.src = <<>>

\* The forEach over document.body.querySelectorAll("script"): each element is
\* replaced by a new script element with the same attributes and text.  A
\* new element without src runs when it is inserted, inside the loop; one
\* with src starts a fetch and runs when the fetch is done, after the loop.
RerunScripts(path, scripts) ==
  LET idx == [i \in DOMAIN scripts |-> i]
      inl(i) == IsInline(scripts[i])
      src == rewriteLinks(ScriptManifest, path, [i \in DOMAIN scripts |-> scripts[i].src])
  IN [src |-> src,
      executed |-> SelectSeq(idx, inl),
      loading |-> {i \in DOMAIN scripts : ~IsInline(scripts[i])},
      failed |-> {}]

InitScripts ==
  /\ HomeInit
  /\ backs = 0
  /\ call \in [fn : {"navigateTo"}, path : {IndexPath},
               scripts : SeqsOf(InlineScripts \cup ExternalScripts, 0, MaxScripts)]
  /\ ret = NoRet

\* navigateTo from the replacement of body.innerHTML to its end
ReplaceBodyScripts ==
  /\ call.fn = "navigateTo"
  /\ ~ret.done
  /\ ret' = [done |-> TRUE, value |-> RerunScripts(call.path, call.scripts)]
  /\ UNCHANGED <<hostVars, sandboxVars, backs, call>>

\* the fetch of an inserted external script is done (a blob URL of the
\* manifest, or a file that the base of the srcdoc document does have): the
\* script runs
ScriptLoaded(i) ==
  /\ call.fn = "navigateTo"
  /\ ret.done
  /\ i \in ret.value.loading
  /\ ret' = [ret EXCEPT !.value.loading = @ \ {i}, !.value.executed = Append(@, i)]
  /\ UNCHANGED <<hostVars, sandboxVars, backs, call>>

\* the fetch of an inserted external script failed: its src was left as
\* written, and the srcdoc document's base has no such file
ScriptError(i) ==
  /\ call.fn = "navigateTo"
  /\ ret.done
  /\ i \in ret.value.loading
  /\ ret.value.src[i].kind = "orig"
  /\ ret' = [ret EXCEPT !.value.loading = @ \ {i}, !.value.failed = @ \cup {i}]
  /\ UNCHANGED <<hostVars, sandboxVars, backs, call>>

NextScripts ==
  \/ ReplaceBodyScripts
  \/ \E i \in 1..MaxScripts : ScriptLoaded(i)
  \/ \E i \in 1..MaxScripts : ScriptError(i)

SpecScripts == InitScripts /\ [][NextScripts]_vars

\* ----------------------------------------------------------------- helpers
Range(q) == {q[i] : i \in DOMAIN q}

Count(q, x) == Cardinality({i \in DOMAIN q : q[i] = x})

GenOf(u) == urlInfo[u].gen

\* u was still the value of its path when its generation's map was complete
Held(u) ==
  ~\E v \in DOMAIN urlInfo :
     v > u /\ urlInfo[v].gen = urlInfo[u].gen /\ urlInfo[v].path = urlInfo[u].path

FilePaths(p) == {p.files[i].path : i \in DOMAIN p.files}

\* m is the handle map of the manifest that is current: one live handle of
\* the current generation per path of websitePreview.files
IsCurrentMap(m) ==
  /\ websitePreview # NoPreview
  /\ Keys(m) = FilePaths(websitePreview)
  /\ \A i \in DOMAIN m :
       /\ Live(log, m[i].url)
       /\ urlInfo[m[i].url].gen = gen
       /\ urlInfo[m[i].url].path = m[i].path

\* ---------------------------------------------------------------- claims
\* C1: the host posts a file-manifest only to a window from which it has
\* received an iframe-ready before; a sandbox that has a file-manifest queued
\* or loaded is one whose iframe-ready the host has received.
ReadyBeforeManifest ==
  /\ \A i \in DOMAIN sent : sent[i] \in Range(readyFrom)
  /\ (sbInbox # <<>> \/ fileManifest # <<>>) => (sbState # "loading" /\ iframe \in Range(readyFrom))

\* a manifest reached the mounted sandbox while the host had also received
\* (and ignored) the iframe-ready of an iframe that is no longer mounted
ReadyBeforeManifestWitness ==
  /\ iframe \in Range(sent)
  /\ fileManifest # <<>>
  /\ \E w \in Range(readyFrom) : w # iframe

\* C2: the host answers each iframe-ready of the mounted iframe with exactly
\* one file-manifest, which carries the handle map and the entry of the
\* current manifest; no window is ever sent more than one.
AnswerReadyStep ==
  (/\ iframe # NoWin
   /\ hostInbox # <<>>
   /\ Head(hostInbox) = ReadyMsg(iframe)
   /\ hostInbox' = Tail(hostInbox))
  => /\ sbInbox' = Append(sbInbox, ManifestMsg(blobUrls, websitePreview.entry))
     /\ IsCurrentMap(blobUrls)

ReadyAnsweredOnce ==
  /\ [](\A w \in 1..MaxWin + 1 : Count(sent, w) <= 1 /\ Count(sent, w) <= Count(readyFrom, w))
  /\ [](iframe # NoWin => Count(sent, iframe) = Count(readyFrom, iframe))
  /\ [][AnswerReadyStep]_vars

\* the mounted sandbox's iframe-ready was answered: one file-manifest with
\* the current handle map is queued for it
ReadyAnsweredOnceWitness ==
  /\ iframe \in Range(sent)
  /\ sbInbox = <<ManifestMsg(blobUrls, websitePreview.entry)>>
  /\ IsCurrentMap(blobUrls)

\* C3: once generation N+1 has been loaded or the page has unmounted, every
\* handle created for generation N has been revoked exactly once.
RevokedExactlyOnce ==
  \A u \in DOMAIN urlInfo : (GenOf(u) < gen \/ ~mounted) => RevokeCount(log, u) = 1

\* C4: the router of the mounted sandbox holds no revoked handle and has
\* started no fetch of one.
RouterHoldsNoRevokedHandle ==
  /\ \A i \in DOMAIN fileManifest : Live(log, fileManifest[i].url)
  /\ \A i \in DOMAIN pending : pending[i].ok

\* C5: when no message and no fetch is in flight, a sandbox whose
\* iframe-ready has been answered holds the handle map that is current: a
\* manifest that replaced the one it was sent has been delivered to it.
NewManifestDelivered ==
  (/\ mounted
   /\ sbState = "ready"
   /\ iframe \in Range(sent)
   /\ hostInbox = <<>>
   /\ sbInbox = <<>>
   /\ pending = <<>>)
  => fileManifest = blobUrls

\* C6: the result of a request that a later load has superseded is never
\* applied.
StaleResultDropped == ~staleApplied

MaterializeThenRelease ==
  \A i, j \in DOMAIN log :
    (/\ log[i].op = "create"
     /\ log[j].op = "revoke"
     /\ GenOf(log[i].url) = GenOf(log[j].url) + 1) => i < j

\* number of handles the maps of generations before g held that are not
\* revoked in the first n calls of the log
LiveHeldBefore(g, n) ==
  Cardinality({u \in DOMAIN urlInfo :
                 GenOf(u) < g /\ Held(u) /\ RevokeCount(SubSeq(log, 1, n), u) = 0})

\* C8 amended: when a handle of a generation is created, no handle that the
\* map of an earlier generation held is still unrevoked.
NoLiveOldHandleAtCreate ==
  \A j \in DOMAIN log :
    log[j].op = "create" => LiveHeldBefore(GenOf(log[j].url), j - 1) = 0

\* a generation with two files was materialized over a released one
NoLiveOldHandleAtCreateWitness ==
  /\ gen >= 2
  /\ Len(blobUrls) = 2
  /\ \E u \in DOMAIN urlInfo : GenOf(u) = 1 /\ Held(u) /\ RevokeCount(log, u) > 0

\* C9: navigateTo for a path that is not a key of the handle map posts one
\* navigation-error with that path, shows the 404 placeholder and starts no
\* fetch.
NavigateMissStep ==
  (/\ sbState = "ready"
   /\ sbState' = "ready"
   /\ iframe' = iframe
   /\ sbInbox # <<>>
   /\ sbInbox' = Tail(sbInbox)
   /\ ~InManifest(Head(sbInbox).manifest, EntryPoint(Head(sbInbox).entry)))
  => /\ hostInbox' = Append(hostInbox, NavErrorMsg(iframe, EntryPoint(Head(sbInbox).entry)))
     /\ body' = NotFoundBody
     /\ pending' = pending

ClickPushesHistoryStep ==
  (/\ iframe' = iframe
   /\ sbInbox' = sbInbox
   /\ Len(pending') = Len(pending) + 1)
  => navHistory' = Append(navHistory, pending'[Len(pending')].path)

ClickPushesHistory == [][ClickPushesHistoryStep]_vars

\* C11: a back event dispatched while the sandbox shows an internal page other
\* than the entry page, reached from the entry page with the current handle
\* map, brings the entry page back (it is shown, or its fetch is under way)
\* for the path of the entry, and starts no generation or regeneration
\* request.
BackRestoresEntryStep ==
  (/\ backs' = backs + 1
   /\ body.kind = "page"
   /\ body.path # EntryPoint(websitePreview.entry)
   /\ fileManifest = blobUrls
   /\ InManifest(fileManifest, EntryPoint(websitePreview.entry))
   /\ pending = <<>>)
  => /\ \/ body'.kind = "page" /\ body'.path = EntryPoint(websitePreview.entry)
        \/ \E i \in DOMAIN pending' : pending'[i].path = EntryPoint(websitePreview.entry)
     /\ genPhase' = genPhase
     /\ regen' = regen

BackRestoresEntry == [][BackRestoresEntryStep]_vars

\* the directory stack after the first k segments of ref, from the directory
\* dir: '..' pops one level and stops at the root, '.' does nothing, any
\* other segment is appended
RECURSIVE DirStack(_, _, _)
DirStack(dir, ref, k) ==
  IF k = 0 THEN dir
  ELSE LET before == DirStack(dir, ref, k - 1)
       IN CASE ref[k] = ".." -> (IF Len(before) = 0 THEN before
                                  ELSE [i \in 1..(Len(before) - 1) |-> before[i]])
            [] ref[k] = "." -> before
            [] OTHER -> before \o <<ref[k]>>

\* the result joined with '/': no segment at all is the empty path
Resolved(currentPath, ref) ==
  LET dir == [i \in 1..(Len(currentPath) - 1) |-> currentPath[i]]
      stack == DirStack(dir, ref, Len(ref))
  IN IF stack = <<>> THEN <<"">> ELSE stack

\* C12: for a reference whose first character is '.', resolvePath gives what
\* the directory-stack algorithm gives from the directory of the current
\* path; for the three literal cases it gives the paths stated.
ResolvesDotRelative ==
  (call.fn = "resolvePath" /\ ret.done) =>
    /\ call.relativePath[1] \in DotSegments \cup DotNames
         => ret.value = Resolved(call.currentPath, call.relativePath)
    /\ (call.currentPath = <<"pages", "about.html">> /\ call.relativePath = <<".", "contact.html">>)
         => ret.value = <<"pages", "contact.html">>
    /\ (call.currentPath = <<"pages", "about.html">> /\ call.relativePath = <<"..", "index.html">>)
         => ret.value = <<"index.html">>
    /\ (call.currentPath = <<"a", "b", "c.html">> /\ call.relativePath = <<"..", "..", "x.html">>)
         => ret.value = <<"x.html">>

\* resolve("a/b/c.html", "../../x.html") was evaluated
ResolvesDotRelativeWitness ==
  /\ call.fn = "resolvePath"
  /\ call.currentPath = <<"a", "b", "c.html">>
  /\ call.relativePath = <<"..", "..", "x.html">>
  /\ ret.done
  /\ ret.value = <<"x.html">>

\* a reference that begins with '/': an empty first segment and more
RootRelative(ref) == Len(ref) > 1 /\ ref[1] = ""

\* the path such a reference names from the root of the file system
FromRoot(ref) ==
  LET stack == DirStack(<<>>, Tail(ref), Len(ref) - 1)
  IN IF stack = <<>> THEN <<"">> ELSE stack

\* C13: a reference that begins with '/' resolves from the root whatever the
\* current path, without a leading slash ("/logo.png" gives "logo.png"), and
\* rewriteLinks replaces such a link to a file of the handle map by its handle.
RootRelativeResolved ==
  (ret.done /\ RootRelative(call.relativePath)) =>
    /\ call.fn = "resolvePath" => ret.value = FromRoot(call.relativePath)
    /\ (call.fn = "resolvePath" /\ call.relativePath = <<"", "logo.png">>)
         => ret.value = <<"logo.png">>
    /\ (call.fn = "rewriteLinks" /\ InManifest(AssetManifest, FromRoot(call.relativePath)))
         => ret.value[1].kind = "blob"
            /\ ret.value[1].url = Lookup(AssetManifest, FromRoot(call.relativePath))

\* a reference with no scheme, no leading '#', '/' or '.': its first segment
\* is a plain name
BareReference(ref) ==
  /\ Len(ref) > 0
  /\ ref[1] \notin DotSegments \cup DotNames \cup {""}
  /\ ref[1] \notin HttpSegments \cup HashSegments \cup BlobSegments

\* C14: a bare reference is resolved against the directory of the current
\* path like a dot-relative one: "contact.html" from "pages/about.html" gives
\* "pages/contact.html".
BareReferenceResolved ==
  (call.fn = "resolvePath" /\ ret.done /\ BareReference(call.relativePath)) =>
    /\ ret.value = Resolved(call.currentPath, call.relativePath)
    /\ (call.currentPath = <<"pages", "about.html">> /\ call.relativePath = <<"contact.html">>)
         => ret.value = <<"pages", "contact.html">>

\* C15: content cleaned by the server-side flow and cleaned again on the
\* client is the content cleaned once.
UnescapeIdempotent ==
  (call.fn = "unescapeModelContent" /\ ret.done /\ ret.stage = "client") => ret.value = ret.once

\* C16: a sandbox that has loaded the handle map of a manifest whose entry
\* names no file shows no 404 placeholder and has sent no navigation-error;
\* once its fetch has settled it shows the first file of the manifest.
EntryFallsBackToFirstFile ==
  (/\ mounted
   /\ websitePreview # NoPreview
   /\ ~HasEntryFile(websitePreview)
   /\ sbState = "ready"
   /\ fileManifest # <<>>
   /\ fileManifest = blobUrls
   /\ IsCurrentMap(blobUrls))
  => /\ body.kind # "404"
     /\ \A i \in DOMAIN hostInbox : hostInbox[i].type # "navigation-error"
     /\ toasts = <<>>
     /\ pending = <<>> => (body.kind = "page" /\ body.path = websitePreview.files[1].path)

\* a binary entry whose data: URI has malformed base64
CorruptEntry(file) == HasBase64Marker(file.content) /\ AtobThrows(file.content.payload)

\* C17: when a manifest with an entry of malformed base64 is loaded, the
\* page stays up with the preview iframe mounted and the handle map holds a
\* live handle for every other file of the manifest.
CorruptAssetSkippedStep ==
  (/\ websitePreview' # websitePreview
   /\ websitePreview' # NoPreview
   /\ \E i \in DOMAIN websitePreview'.files : CorruptEntry(websitePreview'.files[i]))
  => /\ mounted'
     /\ iframe' # NoWin
     /\ \A i \in DOMAIN websitePreview'.files :
          ~CorruptEntry(websitePreview'.files[i])
            => /\ InManifest(blobUrls', websitePreview'.files[i].path)
               /\ Live(log', Lookup(blobUrls', websitePreview'.files[i].path))

CorruptAssetSkipped == [][CorruptAssetSkippedStep]_vars

\* C18: the blob of a file whose content is a data: URI with well-formed
\* base64 holds the decoded bytes and has the MIME type the URI declares,
\* whatever the file's extension; "QQ==" under image/png is the byte 65.
DataUriIsBinary ==
  (call.fn = "blobUrlsEffect" /\ ret.done) =>
    \A u \in DOMAIN ret.value.info :
      LET made == ret.value.info[u]
      IN (HasBase64Marker(made.content) /\ ~AtobThrows(made.content.payload))
           => /\ made.blob.binary
              /\ made.blob.type = made.content.mime
              /\ made.blob.bytes = Base64Bytes(StripPadding(made.content.payload))
              /\ made.content = LogoPng => made.blob = [type |-> "image/png", binary |-> TRUE,
                                                        bytes |-> <<65>>]

\* C19: a model output with no files makes the flow fail with the
\* empty-manifest error and return no manifest, with or without a logo.
EmptyManifestRejected ==
  (/\ call.fn = "generateWebsitePreviewFlow"
   /\ ret.done
   /\ call.output.present
   /\ call.output.files = <<>>)
  => /\ ret.value.threw = "No files generated by model"
     /\ ret.value.result = NoManifest

\* C20: the step that ends a regeneration either leaves the manifest as it
\* is (the regeneration failed) or gives a manifest with the same
\* projectName and entry and the same files in the same order, where only
\* files with the path of the entry have another content.
RegenerateFrameStep ==
  (regen.state = "pending" /\ regen'.state = "idle") =>
    \/ websitePreview' = websitePreview
    \/ /\ websitePreview'.projectName = websitePreview.projectName
       /\ websitePreview'.entry = websitePreview.entry
       /\ Len(websitePreview'.files) = Len(websitePreview.files)
       /\ \A i \in DOMAIN websitePreview.files :
            /\ websitePreview'.files[i].path = websitePreview.files[i].path
            /\ websitePreview.files[i].path # websitePreview.entry
                 => websitePreview'.files[i].content = websitePreview.files[i].content

RegenerateFrame == [][RegenerateFrameStep]_vars

\* While the sandbox of a refreshed iframe has not rendered: every handle of
\* the host's map is live, what the host sent it and what it holds is that
\* map with the entry of the manifest, its fetch is of the entry and will
\* succeed, and the handshake has a next step to take.
RefreshedHandshake ==
  refreshed =>
    /\ mounted /\ iframe # NoWin
    /\ sbState \in {"loading", "ready"}
    /\ body = LoaderBody
    /\ IsCurrentMap(blobUrls)
    /\ \A i \in DOMAIN sbInbox :
         sbInbox[i] = ManifestMsg(blobUrls, websitePreview.entry)
    /\ fileManifest \in {<<>>, blobUrls}
    /\ \A i \in DOMAIN pending :
         /\ pending[i].path = websitePreview.entry
         /\ pending[i].ok
    /\ \/ sbState = "loading"
       \/ ReadyMsg(iframe) \in Range(hostInbox)
       \/ sbInbox # <<>>
       \/ pending # <<>>

\* the refresh itself: a new iframe for the same manifest, no handle
\* created or revoked, the new sandbox about to run its script
RefreshStep ==
  (refreshed' /\ iframe' # iframe) =>
    /\ websitePreview' = websitePreview
    /\ blobUrls' = blobUrls /\ log' = log /\ urlInfo' = urlInfo
    /\ sbState' = "loading"
    /\ iframe' \notin Range(readyFrom)

\* the first render of the refreshed sandbox is a document of the manifest
\* at the entry path
RefreshRenderStep ==
  (refreshed /\ ~refreshed' /\ mounted' /\ iframe' = iframe
   /\ websitePreview' = websitePreview) =>
    /\ body'.kind = "page"
    /\ body'.path = websitePreview.entry
    /\ \E i \in DOMAIN websitePreview.files :
         /\ websitePreview.files[i].path = body'.path
         /\ body'.text = websitePreview.files[i].content.text

\* C21: after Refresh Preview recreates the iframe for an unchanged
\* manifest no handle is revoked, the new sandbox announces itself, is sent
\* the current map with every handle live, and its first render is the
\* document at the entry path.
RefreshReloadsEntry ==
  [][RefreshStep /\ RefreshRenderStep /\ RefreshedHandshake']_vars

\* C22: once the scripts of a re-rendered body have run, none of them
\* having failed to load, they ran in the order they have in the body, each
\* of them once.
ScriptsRunInSourceOrder ==
  (/\ call.fn = "navigateTo"
   /\ ret.done
   /\ ret.value.loading = {}
   /\ ret.value.failed = {})
  => ret.value.executed = [i \in DOMAIN call.scripts |-> i]

\* the timeout fired while the loader was shown: the notice replaces it
TimeoutShowsNotice ==
  (timer = "armed" /\ timer' = "fired" /\ body = LoaderBody) => body' = TimeoutBody

\* a fetch that settles renders its document or the error placeholder,
\* whether the timeout has fired or not
TimeoutKeepsRendering ==
  (sbState = "ready" /\ sbState' = "ready" /\ Len(pending') < Len(pending)) =>
    \E i \in DOMAIN pending :
      body' = IF pending[i].ok
              THEN PageBody(fileManifest, pending[i].path, urlInfo[pending[i].url].content)
              ELSE ErrorBody

\* the timeout fired after the loader was replaced: nothing changes
TimeoutAfterRender ==
  (timer = "armed" /\ timer' = "fired" /\ body # LoaderBody) => body' = body

\* C23: the handshake timeout is a soft warning: fired while the loader is
\* shown it shows the notice, a manifest that arrives afterwards is rendered
\* as usual, and fired after the loader was replaced it changes nothing.
TimeoutIsSoft ==
  [][TimeoutShowsNotice /\ TimeoutKeepsRendering /\ TimeoutAfterRender]_vars

\* the host's listener handles a 'navigation-error' of the mounted iframe
NavigationErrorHandled ==
  /\ mounted
  /\ hostInbox # <<>>
  /\ Head(hostInbox).type = "navigation-error"
  /\ Head(hostInbox).src = iframe
  /\ iframe # NoWin
  /\ hostInbox' = Tail(hostInbox)

NavigationErrorStep ==
  NavigationErrorHandled =>
    /\ toasts' = Append(toasts, Head(hostInbox).path)
    /\ UNCHANGED <<mounted, websitePreview, gen, blobUrls, urlInfo, log, genPhase, regen,
                   stale, staleApplied, iframe, nextWin, readyFrom, sent, sandboxVars>>

\* C24: handling a 'navigation-error' of the mounted iframe adds one report
\* with the failed path and leaves the manifest, the handle map and its
\* handles, the iframe and the whole sandbox as they were.
NavigationErrorFrame == [][NavigationErrorStep]_vars

\* the failed entry of a manifest was reported; its iframe is still mounted,
\* its handles live, its sandbox showing the placeholder
NavigationErrorFrameWitness ==
  /\ toasts = <<HomePath>>
  /\ iframe # NoWin
  /\ IsCurrentMap(blobUrls)
  /\ fileManifest = blobUrls
  /\ sbState = "ready"
  /\ body = NotFoundBody

\* C25: in resolvePath every '..' pops one level of the directory stack and
\* is ignored at the root, every '.' leaves the stack alone: the result is
\* the clamped stack and has no '.' or '..' segment left, for every current
\* path and every reference; resolve("index.html", "../../x.html") is
\* "x.html".
DotDotClampedAtRoot ==
  (call.fn = "resolvePath" /\ ret.done /\ call.relativePath[1] # "") =>
    /\ ret.value = Resolved(call.currentPath, call.relativePath)
    /\ Range(ret.value) \cap DotSegments = {}
    /\ (call.currentPath = <<"index.html">> /\ call.relativePath = <<"..", "..", "x.html">>)
         => ret.value = <<"x.html">>

\* the flow returned a manifest
FlowReturned ==
  call.fn = "generateWebsitePreviewFlow" /\ ret.done /\ ret.value.threw = ""

\* number of files at assets/logo.png
LogoEntries(files) == Cardinality({i \in DOMAIN files : files[i].path = LogoPath})

\* The files of the model output are all there, cleaned, in their order;
\* after them comes the supplied logo, as supplied, if and only if one was
\* supplied and the model output has no file at assets/logo.png; nothing
\* else is in the manifest.
LogoAppendedIfMissing ==
  LET given == call.output.files
      files == ret.value.result.files
      appended == call.logoDataUri # NoLogo /\ LogoEntries(given) = 0
  IN /\ Len(files) = Len(given) + (IF appended THEN 1 ELSE 0)
     /\ \A i \in DOMAIN given :
          /\ files[i].path = given[i].path
          /\ files[i].content = unescapeModelContent(given[i].content)
     /\ appended => files[Len(files)] = File(LogoPath, call.logoDataUri)

\* C26: with a logo supplied the manifest has exactly one file at
\* assets/logo.png: the supplied logo appended if the model output has no
\* such file, else the file of the model output; no other file is added,
\* removed or reordered, and without a logo nothing is appended.
ExactlyOneLogo ==
  FlowReturned =>
    /\ LogoAppendedIfMissing
    /\ call.logoDataUri # NoLogo => LogoEntries(ret.value.result.files) = 1

\* C26, amended: with a logo supplied the manifest has the files the model
\* output has at assets/logo.png, or the supplied logo appended if it has
\* none: at least one, and one if the model output has at most one; no other
\* file is added, removed or reordered, and without a logo nothing is
\* appended.
LogoPresentOnce ==
  FlowReturned =>
    /\ LogoAppendedIfMissing
    /\ call.logoDataUri # NoLogo =>
         /\ LogoEntries(ret.value.result.files) >= 1
         /\ LogoEntries(call.output.files) <= 1 => LogoEntries(ret.value.result.files) = 1
         /\ LogoEntries(call.output.files) >= 1
              => LogoEntries(ret.value.result.files) = LogoEntries(call.output.files)

\* a logo was supplied for a model output that has a page and its own file
\* at assets/logo.png: the manifest returned has these two files
LogoPresentOnceWitness ==
  /\ FlowReturned
  /\ call.logoDataUri = LogoDataUri
  /\ Len(call.output.files) = 2
  /\ call.output.files[1].path = IndexPath
  /\ call.output.files[2] = File(LogoPath, <<"x">>)
  /\ ret.value.result.files = call.output.files

HasBraceSpan(s) == \E i, j \in DOMAIN s : i < j /\ s[i] = "{" /\ s[j] = "}"

\* from the first '{' of s to its last '}'
BraceSpan(s) == SubSeq(s, IndexOf(s, "{"), LastIndexOf(s, "}"))

\* the action returned a preview or an error, never both and never neither
PreviewOrError ==
  (call.fn = "generateWebsitePreviewAction" /\ ret.done) =>
    /\ ret.value.preview.present # ret.value.error.present
    /\ ret.value.error.present => ret.value.error.message # ""

\* C28: the action returns a preview or an error, never both and never
\* neither, and an error when what generateWebsitePreview gave has no
\* '{' ... '}' span or the span does not parse.
UnparseableGivesError ==
  /\ PreviewOrError
  /\ (/\ call.fn = "generateWebsitePreviewAction"
      /\ ret.done
      /\ \/ ~HasBraceSpan(call.rawResult.text)
         \/ ~JSONparses(BraceSpan(call.rawResult.text)))
     => ret.value.error.present

\* C29: when no navigation of the sandbox is in flight any more and the
\* navigation asked for last found its file and fetched it, the document
\* shown is the page of that navigation.
LastNavigationWins ==
  (sbState = "ready" /\ pending = <<>> /\ lastNav.found /\ lastNav.ok) =>
    body.kind = "page" /\ body.path = lastNav.path

\* the host's listener handles a message while no iframe is mounted, or one
\* whose source is not the window of the mounted iframe
ForeignMessageHandled ==
  /\ hostInbox # <<>>
  /\ hostInbox' = Tail(hostInbox)
  /\ iframe = NoWin \/ Head(hostInbox).src # iframe

ForeignMessageStep ==
  ForeignMessageHandled =>
    /\ sbInbox' = sbInbox
    /\ sent' = sent
    /\ toasts' = toasts
    /\ UNCHANGED <<mounted, websitePreview, gen, blobUrls, urlInfo, log, iframe, nextWin,
                   sandboxVars>>

\* C30: a message that does not come from the window of the mounted
\* iframe, or that arrives while no iframe is mounted, makes the host send
\* no file-manifest and show no error; nothing of the preview changes.
ForeignMessagesIgnored == [][ForeignMessageStep]_vars

\* the iframe-ready of a window that is not the mounted iframe's was
\* handled and not answered, and no error is shown
ForeignMessagesIgnoredWitness ==
  /\ mounted
  /\ hostInbox = <<>>
  /\ toasts = <<>>
  /\ \E i \in DOMAIN readyFrom : readyFrom[i] # iframe /\ readyFrom[i] \notin Range(sent)

====
